---- MODULE Spec2Model ----
(***************************************************************************)
(* A model of hilbert-geometry: the geometry <-> Hilbert-index transform   *)
(* (src/src/lib.rs), its bincode serialisation, and the wrap-based         *)
(* longitude/latitude normaliser (src/src/normalize.rs).                   *)
(*                                                                         *)
(* Numbers.  A coordinate is an integer count of 10^-PRECISION degrees, so *)
(* every coordinate of the model has at most PRECISION fractional decimal  *)
(* digits.  A real number that is not such a count (a normalised           *)
(* coordinate, a curve position) is a rational [num, den].                 *)
(***************************************************************************)
EXTENDS Integers, Sequences, FiniteSets, TLC

\* ------------------------------------------------------------- constants
PRECISION == 7

LonScale == 180

LatScale == 90

\* The order of the Hilbert curve approximation the curve mapping walks: the
\* unit square is cut into 2^CurveOrder x 2^CurveOrder cells.
CurveOrder == 2

RECURSIVE Pow(_, _)
Pow(b, n) == IF n = 0 THEN 1 ELSE b * Pow(b, n - 1)

\* 10f64.powi(PRECISION): the number of coordinate units in one degree.
Unit == Pow(10, PRECISION)

CurveSide == Pow(2, CurveOrder)

Ratio(n, d) == [num |-> n, den |-> d]

\* ---------------------------------------------------------- round_decimal
\* f64::round: to the nearest integer, halves away from zero; n / d with d > 0.
RoundDiv(n, d) ==
    IF n >= 0 THEN (2 * n + d) \div (2 * d)
    ELSE -((2 * (-n) + d) \div (2 * d))

\* (v * 10^PRECISION).round() / 10^PRECISION for the rational v in degrees; the
\* result is the count of 10^-PRECISION degrees.  The product is taken on the
\* integral and the fractional part of v apart, which keeps it in range.
round_decimal(v) ==
    LET q == v.num \div v.den
        r == v.num % v.den
    IN  q * Unit + RoundDiv(r * Unit, v.den)

\* ------------------------------------------------------- the curve mapping
\* floor(r * 2^k / span) for 0 <= r < span, one binary digit at a time.
RECURSIVE ScaleBits(_, _, _)
ScaleBits(r, span, k) ==
    IF k = 0 THEN 0
    ELSE LET bit == IF r >= span - r THEN 1 ELSE 0
             r2  == IF bit = 1 THEN r - (span - r) ELSE r + r
         IN  bit * Pow(2, k - 1) + ScaleBits(r2, span, k - 1)

\* The cell of the normalised coordinate v = num / den along one axis.  The
\* mapping is defined on the unit interval; a float-to-integer conversion
\* saturates, so a value below it lands in the first cell and a value at or
\* above 1 in the last.
CellOf(v) ==
    IF v.num < 0 THEN 0
    ELSE IF v.num >= v.den THEN CurveSide - 1
    ELSE ScaleBits(v.num, v.den, CurveOrder)

\* One level of the Hilbert walk: rotate/flip the quadrant.
Rot(n, x, y, rx, ry) ==
    IF ry = 0
    THEN IF rx = 1 THEN <<n - 1 - y, n - 1 - x>> ELSE <<y, x>>
    ELSE <<x, y>>

RECURSIVE XY2D(_, _, _, _)
XY2D(n, s, x, y) ==
    IF s = 0 THEN 0
    ELSE LET rx == IF (x \div s) % 2 = 1 THEN 1 ELSE 0
             ry == IF (y \div s) % 2 = 1 THEN 1 ELSE 0
             q  == IF rx = 1 THEN 3 - ry ELSE ry
             p  == Rot(n, x, y, rx, ry)
         IN  s * s * q + XY2D(n, s \div 2, p[1], p[2])

RECURSIVE D2XY(_, _, _, _, _)
D2XY(n, s, t, x, y) ==
    IF s >= n THEN <<x, y>>
    ELSE LET rx == (t \div 2) % 2
             ry == (t + rx) % 2
             p  == Rot(s, x, y, rx, ry)
         IN  D2XY(n, 2 * s, t \div 4, p[1] + s * rx, p[2] + s * ry)

\* xy2h_continuous_f64(x, y, Variant::Hilbert): the position along the curve of
\* the cell holding (x, y); the HilbertPoint h stands for h / 4^CurveOrder.
xy2h_continuous_f64(x, y) ==
    XY2D(CurveSide, CurveSide \div 2, CellOf(x), CellOf(y))

\* h2xy_continuous_f64(h, Variant::Hilbert): the corner of the cell at position
\* h, as two rationals of the unit square; a position outside the curve
\* saturates like a coordinate does.
h2xy_continuous_f64(h) ==
    LET t == IF h < 0 THEN 0
             ELSE IF h >= CurveSide * CurveSide THEN CurveSide * CurveSide - 1
             ELSE h
        p == D2XY(CurveSide, 1, t, 0, 0)
    IN  <<Ratio(p[1], CurveSide), Ratio(p[2], CurveSide)>>

\* ------------------------------------------------------------ coordinates
Coord(x, y) == [x |-> x, y |-> y]

\* encode_coord: coord.x / 180., coord.y / 90. are the rationals x / (180 Unit)
\* and y / (90 Unit).
encode_coord(coord) ==
    xy2h_continuous_f64(Ratio(coord.x, LonScale * Unit),
                        Ratio(coord.y, LatScale * Unit))

\* decode_coord: x * 180., y * 90., each rounded to PRECISION digits.
decode_coord(p) ==
    LET xy == h2xy_continuous_f64(p)
    IN  Coord(round_decimal(Ratio(xy[1].num * LonScale, xy[1].den)),
              round_decimal(Ratio(xy[2].num * LatScale, xy[2].den)))


\* ------------------------------------------------------------- geometries
\* A Geometry<f64> and a HilbertGeometry are records [kind, val].  Geometry:
\*   Point            val = a coordinate
\*   LineString       val = a sequence of coordinates
\*   Polygon          val = [exterior, interiors]
\*   MultiPoint       val = a sequence of coordinates
\*   MultiLineString  val = a sequence of sequences of coordinates
\*   MultiPolygon     val = a sequence of [exterior, interiors]
\* and the kinds encode_geometry has no arm for (Line, GeometryCollection,
\* Rect, Triangle), whose payload is never read.  HilbertGeometry mirrors the
\* six supported kinds with a HilbertPoint for each coordinate and a Polygon
\* as one sequence of rings.
Geom(k, v) == [kind |-> k, val |-> v]

SupportedKinds ==
    {"Point", "LineString", "Polygon", "MultiPoint", "MultiLineString", "MultiPolygon"}

UnsupportedKinds == {"Line", "GeometryCollection", "Rect", "Triangle"}

\* An arm that degrades silently instead: an empty MultiPoint.
EmptyMultiPoint == Geom("MultiPoint", <<>>)

\* unimplemented!("Geometry type not supported"): the call does not return.
Unimplemented == Geom("Unimplemented", <<>>)

\* Option::unwrap / Result::unwrap on a failed downcast: the call does not return.
UnwrapFailed == Geom("UnwrapFailed", <<>>)

\* The points encoded back to front.
EncodePointsReversed(pts) ==
    [i \in 1..Len(pts) |-> encode_coord(pts[Len(pts) + 1 - i])]

\* ring.points().map(|p| encode_coord(p.0)).collect()
EncodePoints(pts) == [i \in 1..Len(pts) |-> encode_coord(pts[i])]

make_point(pt) == Geom("Point", encode_coord(pt))

make_linestring(ls) == Geom("LineString", EncodePoints(ls))

\* The exterior ring put after the interior rings.
make_poly_exterior_last(poly) ==
    LET exterior  == EncodePoints(poly.exterior)
        interiors == [i \in 1..Len(poly.interiors) |-> EncodePoints(poly.interiors[i])]
    IN  Geom("Polygon", interiors \o <<exterior>>)

make_poly(poly) ==
    LET exterior  == EncodePoints(poly.exterior)
        interiors == [i \in 1..Len(poly.interiors) |-> EncodePoints(poly.interiors[i])]
    IN  Geom("Polygon", <<exterior>> \o interiors)

\* geoms.iter().map(make).filter_map(|hg| if let K(hp) = hg {Some(hp)} else {None})
FilterMap(hgs, k) ==
    LET kept == SelectSeq(hgs, LAMBDA hg : hg.kind = k)
    IN  [i \in 1..Len(kept) |-> kept[i].val]

encode_geometry(geom) ==
    CASE geom.kind = "Point" -> make_point(geom.val)
      [] geom.kind = "LineString" -> make_linestring(geom.val)
      [] geom.kind = "Polygon" -> make_poly(geom.val)
      [] geom.kind = "MultiPoint" ->
            Geom("MultiPoint",
                 FilterMap([i \in 1..Len(geom.val) |-> make_point(geom.val[i])], "Point"))
      [] geom.kind = "MultiLineString" ->
            Geom("MultiLineString",
                 FilterMap([i \in 1..Len(geom.val) |-> make_linestring(geom.val[i])],
                           "LineString"))
      [] geom.kind = "MultiPolygon" ->
            Geom("MultiPolygon",
                 FilterMap([i \in 1..Len(geom.val) |-> make_poly(geom.val[i])], "Polygon"))
      [] OTHER -> Unimplemented

\* A ring left as it is.
LineStringKeep(ls) == ls

\* geo_types LineString::close, which Polygon::new applies to every ring: a
\* ring whose first and last vertex differ gets its first vertex appended.
LineStringClose(ls) ==
    IF ls # <<>> /\ ls[1] # ls[Len(ls)] THEN Append(ls, ls[1]) ELSE ls

\* Polygon::new(exterior, interiors)
PolygonNew(exterior, interiors) ==
    [exterior  |-> LineStringClose(exterior),
     interiors |-> [i \in 1..Len(interiors) |-> LineStringClose(interiors[i])]]

\* hps.iter().map(|hp| decode_coord(*hp)).collect()
DecodePoints(hps) == [i \in 1..Len(hps) |-> decode_coord(hps[i])]

\* Geometry::try_into::<LineString / Polygon>: the payload, or the failure.
TryInto(g, k) == IF g.kind = k THEN g ELSE UnwrapFailed

\* .map(|g| g.try_into().unwrap()).collect(): the members' payloads, unless a
\* downcast failed.
Collect(members, k, multi) ==
    LET cast == [i \in 1..Len(members) |-> TryInto(members[i], k)]
    IN  IF \E i \in 1..Len(cast) : cast[i] = UnwrapFailed
        THEN UnwrapFailed
        ELSE Geom(multi, [i \in 1..Len(cast) |-> cast[i].val])

DecodeLineString(hps) == Geom("LineString", DecodePoints(hps))

DecodePolygon(rings) ==
    IF rings = <<>>
    THEN Geom("Polygon", PolygonNew(<<>>, <<>>))
    ELSE LET exterior  == DecodePoints(rings[1])
             interiors == [i \in 1..(Len(rings) - 1) |-> DecodePoints(rings[i + 1])]
         IN  Geom("Polygon", PolygonNew(exterior, interiors))

decode_geometry(hgeom) ==
    CASE hgeom.kind = "Point" -> Geom("Point", decode_coord(hgeom.val))
      [] hgeom.kind = "LineString" -> DecodeLineString(hgeom.val)
      [] hgeom.kind = "Polygon" -> DecodePolygon(hgeom.val)
      [] hgeom.kind = "MultiPoint" -> Geom("MultiPoint", DecodePoints(hgeom.val))
      [] hgeom.kind = "MultiLineString" ->
            Collect([i \in 1..Len(hgeom.val) |-> DecodeLineString(hgeom.val[i])],
                    "LineString", "MultiLineString")
      [] hgeom.kind = "MultiPolygon" ->
            Collect([i \in 1..Len(hgeom.val) |-> DecodePolygon(hgeom.val[i])],
                    "Polygon", "MultiPolygon")

\* ---------------------------------------------------------------- bincode
\* config::standard(): little endian, variable-width integers, no size limit.
\* A variable-width integer up to SINGLE_BYTE_MAX is one byte; a larger one is a
\* marker byte followed by the integer in 2, 4 or 8 bytes.
SINGLE_BYTE_MAX == 250

U16_BYTE == 251

U32_BYTE == 252

U64_BYTE == 253

\* size_of::<f64>() = size_of::<HilbertPoint>() and size_of::<Vec<_>>() in bytes.
F64Size == 8

VecSize == 24

U32Size == 4

U64Size == 8

\* The n low bytes of the natural number v, little endian.
RECURSIVE ToLE(_, _)
ToLE(v, n) == IF n = 0 THEN <<>> ELSE <<v % 256>> \o ToLE(v \div 256, n - 1)

Pad(bytes, n) == bytes \o [i \in 1..(n - Len(bytes)) |-> 0]

RECURSIVE Concat(_)
Concat(ss) == IF ss = <<>> THEN <<>> ELSE Head(ss) \o Concat(Tail(ss))

\* varint_encode_u32 / varint_encode_u64 (the model's values stay below 2^16).
VarintEncode(v) ==
    IF v <= SINGLE_BYTE_MAX THEN <<v>> ELSE <<U16_BYTE>> \o ToLE(v, 2)

\* f64: its 8 bytes, little endian.  The bits of the HilbertPoint h are
\* modelled as the 64-bit integer h.
F64Encode(h) == ToLE(h, F64Size)

\* depth 0: a HilbertPoint; depth k: a Vec of values of depth k - 1, its length
\* first.
RECURSIVE EncodeValue(_, _)
EncodeValue(v, depth) ==
    IF depth = 0 THEN F64Encode(v)
    ELSE VarintEncode(Len(v))
         \o Concat([i \in 1..Len(v) |-> EncodeValue(v[i], depth - 1)])

\* #[derive(Decode, Encode)] enum HilbertGeometry: the variants in order.
Variants ==
    <<"Point", "LineString", "Polygon", "MultiPoint", "MultiLineString", "MultiPolygon">>

VariantIndex(kind) == CHOOSE i \in 1..Len(Variants) : Variants[i] = kind

\* The Vec nesting of a variant's payload.
Depth(kind) ==
    CASE kind = "Point" -> 0
      [] kind \in {"LineString", "MultiPoint"} -> 1
      [] kind \in {"Polygon", "MultiLineString"} -> 2
      [] kind = "MultiPolygon" -> 3

\* The variant index counted from one.
encode_bincode_one_based(hg) ==
    VarintEncode(VariantIndex(hg.kind)) \o EncodeValue(hg.val, Depth(hg.kind))

\* HilbertGeometry::encode_bincode = bincode::encode_to_vec
encode_bincode(hg) ==
    VarintEncode(VariantIndex(hg.kind) - 1) \o EncodeValue(hg.val, Depth(hg.kind))

\* A decoder's result: st = "ok" with the value and the next position to read,
\* "err" with the DecodeError, "panic" or "abort" when the call does not
\* return.
Ok(v, next) == [st |-> "ok", val |-> v, next |-> next]

Fail(st, e) == [st |-> st, val |-> e, next |-> 0]

\* SliceReader::read: n bytes from position pos, or UnexpectedEnd.
Take(data, pos, n) ==
    IF pos + n - 1 > Len(data) THEN Fail("err", "UnexpectedEnd")
    ELSE Ok(SubSeq(data, pos, pos + n - 1), pos + n)

\* varint_decode_u32 (width 4) / varint_decode_u64 (width 8): the integer as
\* its bytes, little endian; a marker of a wider integer is an error.
VarintDecode(data, pos, width) ==
    LET b == Take(data, pos, 1)
    IN  IF b.st # "ok" THEN b
        ELSE LET m == b.val[1]
                 n == CASE m = U16_BYTE -> 2
                        [] m = U32_BYTE -> 4
                        [] m = U64_BYTE -> 8
                        [] OTHER -> 0
             IN  IF m <= SINGLE_BYTE_MAX THEN Ok(ToLE(m, width), b.next)
                 ELSE IF n = 0 \/ n > width THEN Fail("err", "InvalidIntegerType")
                 ELSE LET r == Take(data, b.next, n)
                      IN  IF r.st # "ok" THEN r ELSE Ok(Pad(r.val, width), r.next)

\* Integers above 2^16 are kept as bytes: IsSmall tells whether one is below
\* 2^16, SmallVal is then its value.
IsSmall(bytes) == \A i \in 3..Len(bytes) : bytes[i] = 0

SmallVal(bytes) == bytes[1] + 256 * bytes[2]

\* a >= b for two little-endian integers of equal length, from the top byte down.
RECURSIVE GeqFrom(_, _, _)
GeqFrom(a, b, i) ==
    IF i = 0 THEN TRUE
    ELSE IF a[i] # b[i] THEN a[i] > b[i]
    ELSE GeqFrom(a, b, i - 1)

\* The least length whose Vec of elements of `size` bytes is larger than
\* isize::MAX bytes, ceil(2^63 / size): 2^60 for 8, 0x0555555555555556 for 24.
CapacityLimit(size) ==
    IF size = F64Size THEN <<0, 0, 0, 0, 0, 0, 0, 16>>
    ELSE <<86, 85, 85, 85, 85, 85, 85, 5>>

\* A count no byte sequence of the model can supply.
Unbounded == Pow(256, 2)

\* f64::decode: 8 bytes.  Bits above the model's HilbertPoints are a position
\* past the end of the curve.
F64Decode(data, pos) ==
    LET r == Take(data, pos, F64Size)
    IN  IF r.st # "ok" THEN r
        ELSE Ok(IF \E i \in 4..F64Size : r.val[i] # 0
                THEN CurveSide * CurveSide
                ELSE r.val[1] + 256 * r.val[2] + 65536 * r.val[3],
                r.next)

\* Vec<T>::decode: the length, Vec::with_capacity(len), then len elements.
\* With no limit configured claim_container_read checks nothing, so
\* with_capacity panics ("capacity overflow") when len * size_of::<T>()
\* exceeds isize::MAX, and a request the allocator refuses aborts the process;
\* allocOk tells whether it grants a request of 2^16 elements or more.
RECURSIVE DecodeValue(_, _, _, _), DecodeItems(_, _, _, _, _)
DecodeValue(data, pos, depth, allocOk) ==
    IF depth = 0 THEN F64Decode(data, pos)
    ELSE LET len  == VarintDecode(data, pos, U64Size)
             size == IF depth = 1 THEN F64Size ELSE VecSize
         IN  IF len.st # "ok" THEN len
             ELSE IF GeqFrom(len.val, CapacityLimit(size), U64Size)
             THEN Fail("panic", "capacity overflow")
             ELSE IF ~IsSmall(len.val) /\ ~allocOk
             THEN Fail("abort", "memory allocation failed")
             ELSE DecodeItems(data, len.next, depth - 1,
                              IF IsSmall(len.val) THEN SmallVal(len.val) ELSE Unbounded,
                              allocOk)

DecodeItems(data, pos, depth, n, allocOk) ==
    IF n = 0 THEN Ok(<<>>, pos)
    ELSE LET x == DecodeValue(data, pos, depth, allocOk)
         IN  IF x.st # "ok" THEN x
             ELSE LET rest == DecodeItems(data, x.next, depth, n - 1, allocOk)
                  IN  IF rest.st # "ok" THEN rest
                      ELSE Ok(<<x.val>> \o rest.val, rest.next)

\* bincode::decode_from_slice::<HilbertGeometry>: the variant index as a u32,
\* then the variant's payload; the value and where reading stopped.
decode_from_slice(data, allocOk) ==
    LET tag == VarintDecode(data, 1, U32Size)
    IN  IF tag.st # "ok" THEN tag
        ELSE IF ~IsSmall(tag.val) \/ SmallVal(tag.val) >= Len(Variants)
        THEN Fail("err", "UnexpectedVariant")
        ELSE LET kind == Variants[SmallVal(tag.val) + 1]
                 body == DecodeValue(data, tag.next, Depth(kind), allocOk)
             IN  IF body.st # "ok" THEN body ELSE Ok(Geom(kind, body.val), body.next)

\* A decoder that refuses bytes left over after the value.
decode_bincode_exact(data, allocOk) ==
    LET r == decode_from_slice(data, allocOk)
    IN  IF r.st = "ok" /\ r.next # Len(data) + 1
        THEN Fail("err", "TrailingBytes")
        ELSE r

\* HilbertGeometry::decode_bincode: let (decoded, _) = decode_from_slice(..)?
decode_bincode(data, allocOk) == decode_from_slice(data, allocOk)

\* ------------------------------------------------------------- normalize.rs
\* The normaliser's f64 values are rationals; the inputs below are multiples of
\* 45 and 22.5 degrees, on which every f64 operation of the two functions is
\* exact.
RAdd(a, b) == Ratio(a.num * b.den + b.num * a.den, a.den * b.den)

RSub(a, b) == Ratio(a.num * b.den - b.num * a.den, a.den * b.den)

RMul(a, b) == Ratio(a.num * b.num, a.den * b.den)

\* a / b for b > 0
RDiv(a, b) == Ratio(a.num * b.den, a.den * b.num)

\* The integer remainder that truncates toward zero.
TruncRem(x, m) == IF x >= 0 THEN x % m ELSE -((-x) % m)

\* f64 % f64 for b > 0: the remainder has the sign of the dividend.
RRem(a, b) == Ratio(TruncRem(a.num * b.den, b.num * a.den), a.den * b.den)

REq(a, b) == a.num * b.den = b.num * a.den

\* a <= b (denominators are positive)
RLeq(a, b) == a.num * b.den <= b.num * a.den

R(n) == Ratio(n, 1)

normalize_lon_lat(lon, lat) ==
    LET lon_wrapped == RRem(RAdd(lon, R(180)), R(360))
        lon_norm    == RDiv(lon_wrapped, R(360))
        lat_wrapped == RRem(RAdd(lat, R(90)), R(180))
        lat_norm    == RDiv(lat_wrapped, R(180))
    IN  <<lon_norm, lat_norm>>

\* The scaling without the shift back.
denormalize_lon_lat_unshifted(lon_norm, lat_norm) ==
    <<RMul(lon_norm, R(360)), RMul(lat_norm, R(180))>>

denormalize_lon_lat(lon_norm, lat_norm) ==
    LET lon == RSub(RMul(lon_norm, R(360)), R(180))
        lat == RSub(RMul(lat_norm, R(180)), R(90))
    IN  <<lon, lat>>

\* ------------------------------------------------------------------ inputs
MaxPoints == 2

MaxInteriors == 2

MaxMembers == 2

MaxTail == 2

\* Byte sequences up to this length are also handed to the decoder damaged.
MaxTamperLen == 20

MaxLonSteps == 10

MaxLatSteps == 10

SeqUpTo(S, n) == UNION {[1..k -> S] : k \in 0..n}

\* (45, 22.5) and (90, 45) lie on the curve's grid for every order >= 2;
\* (200, 0) lies outside the curve's domain.
CoordA == Coord(45 * Unit, (45 * Unit) \div 2)

CoordB == Coord(90 * Unit, 45 * Unit)

CoordC == Coord(200 * Unit, 0)

Coords == {CoordA, CoordB, CoordC}

\* A Geometry's polygons are built by Polygon::new, which closes the rings.
Polygons ==
    {PolygonNew(e, is) : e \in SeqUpTo(Coords, MaxPoints),
                         is \in SeqUpTo({<<CoordA>>, <<CoordA, CoordB, CoordA>>},
                                        MaxInteriors)}

MemberPolygons ==
    {PolygonNew(e, is) : e \in {<<>>, <<CoordA>>, <<CoordA, CoordB>>},
                         is \in SeqUpTo({<<CoordB>>}, 1)}

Geometries ==
    {Geom("Point", c) : c \in Coords}
    \union {Geom("LineString", s) : s \in SeqUpTo(Coords, MaxPoints)}
    \union {Geom("Polygon", p) : p \in Polygons}
    \union {Geom("MultiPoint", s) : s \in SeqUpTo(Coords, MaxPoints)}
    \union {Geom("MultiLineString", s) :
                s \in SeqUpTo({<<>>, <<CoordA>>, <<CoordB, CoordC>>}, MaxMembers)}
    \union {Geom("MultiPolygon", s) : s \in SeqUpTo(MemberPolygons, MaxMembers)}
    \union {Geom(k, <<>>) : k \in UnsupportedKinds}

\* HilbertGeometry values a caller builds by hand (the fields are public).
HA == encode_coord(CoordA)

HB == encode_coord(CoordB)

HRings == {<<>>, <<HA>>, <<HA, HB>>, <<HA, HB, HA>>}

HGeoms ==
    {Geom("Point", h) : h \in {HA, HB}}
    \union {Geom("LineString", s) : s \in SeqUpTo({HA, HB}, MaxPoints)}
    \union {Geom("Polygon", s) : s \in SeqUpTo(HRings, MaxInteriors + 1)}
    \union {Geom("MultiPoint", s) : s \in SeqUpTo({HA, HB}, MaxPoints)}
    \union {Geom("MultiLineString", s) :
                s \in SeqUpTo({<<>>, <<HA>>, <<HB, HA>>}, MaxMembers)}
    \union {Geom("MultiPolygon", s) :
                s \in SeqUpTo({<<>>, <<<<HA>>>>, <<<<HA, HB>>, <<HB>>>>}, MaxMembers)}

\* What a caller may hand to the decoder in place of the valid encoding `data`.
TamperKinds == {"intact", "truncated", "trailing", "discriminator", "length"}

Tails == SeqUpTo({0, 255}, MaxTail) \ {<<>>}

\* Leading bytes that are no variant index: values past the last variant, the
\* markers of an integer wider than u32, and 6 written as a u16 and as a u32.
BadDiscriminators ==
    {<<6>>, <<7>>, <<250>>, <<253>>, <<254>>, <<255>>, <<251, 6, 0>>, <<252, 0, 0, 1, 0>>}

\* Lengths the bytes after them cannot supply, n being the true length.
LongLengths(n) ==
    {<<n + 1>>, <<250>>, <<251, 0, 1>>, <<252, 0, 0, 1, 0>>,
     <<253, 0, 0, 0, 0, 0, 1, 0, 0>>,
     <<253, 0, 0, 0, 0, 0, 0, 0, 16>>,
     <<253, 86, 85, 85, 85, 85, 85, 85, 5>>,
     <<253, 255, 255, 255, 255, 255, 255, 255, 255>>}

Received(d, t) ==
    CASE t = "intact" -> {d}
      [] Len(d) > MaxTamperLen -> {}
      [] t = "truncated" -> {SubSeq(d, 1, k) : k \in 0..(Len(d) - 1)}
      [] t = "trailing" -> {d \o tl : tl \in Tails}
      [] t = "discriminator" -> {b \o Tail(d) : b \in BadDiscriminators}
      [] t = "length" ->
            IF d[1] = 0 THEN {}
            ELSE {<<d[1]>> \o l \o SubSeq(d, 3, Len(d)) : l \in LongLengths(d[2])}

LonInputs == {Ratio(45 * k, 1) : k \in (-MaxLonSteps)..MaxLonSteps}

LatInputs == {Ratio(45 * k, 2) : k \in (-MaxLatSteps)..MaxLatSteps}

\* ------------------------------------------------------------------- state
VARIABLES
    pc,        \* where the pipeline stands
    geom,      \* the Geometry handed to encode_geometry / HilbertSerializer::encode
    hgeom,     \* the HilbertGeometry encoded from geom, or built by hand
    data,      \* the bytes encode_bincode produced
    input,     \* the bytes handed to the decoder
    tamper,    \* how input was derived from data
    unpacked,  \* the HilbertGeometry decode_bincode returned
    decoded,   \* the Geometry decode_geometry returned
    err,       \* the DecodeError or the panic message
    npc,       \* normaliser: where the call sequence stands
    lonlat,    \* normaliser: the input pair
    norm,      \* normaliser: normalize_lon_lat's result
    denorm     \* normaliser: denormalize_lon_lat's result

gvars == <<pc, geom, hgeom, data, input, tamper, unpacked, decoded, err>>

nvars == <<npc, lonlat, norm, denorm>>

vars == <<gvars, nvars>>

NoGeom == Geom("None", <<>>)

NoPair == <<R(0), R(0)>>

GeomIdle ==
    /\ pc = "off" /\ geom = NoGeom /\ hgeom = NoGeom /\ data = <<>> /\ input = <<>>
    /\ tamper = "none" /\ unpacked = NoGeom /\ decoded = NoGeom /\ err = ""

NormIdle == npc = "off" /\ lonlat = NoPair /\ norm = NoPair /\ denorm = NoPair

Init ==
    /\ \/ geom \in Geometries /\ hgeom = NoGeom /\ pc = "geometry"
       \/ geom = NoGeom /\ hgeom \in HGeoms /\ pc = "hilbert"
    /\ data = <<>> /\ input = <<>> /\ tamper = "none"
    /\ unpacked = NoGeom /\ decoded = NoGeom /\ err = ""
    /\ NormIdle

\* A call that does not return: a panic or an abort.
Stops(how, why) == pc' = how /\ err' = why

\* encode_geometry(&geom)
EncodeGeometry ==
    /\ pc = "geometry"
    /\ LET hg == encode_geometry(geom)
       IN  IF hg.kind = "Unimplemented"
           THEN Stops("panic", "not implemented: Geometry type not supported")
                /\ UNCHANGED hgeom
           ELSE pc' = "hilbert" /\ hgeom' = hg /\ UNCHANGED err
    /\ UNCHANGED <<geom, data, input, tamper, unpacked, decoded, nvars>>

\* decode_geometry(&hgeom), on the HilbertGeometry at hand
DecodeGeometry ==
    /\ pc \in {"hilbert", "unpacked"}
    /\ LET g == decode_geometry(IF pc = "hilbert" THEN hgeom ELSE unpacked)
       IN  IF g.kind = "UnwrapFailed"
           THEN Stops("panic", "called Result::unwrap() on an Err value")
                /\ UNCHANGED decoded
           ELSE pc' = "decoded" /\ decoded' = g /\ UNCHANGED err
    /\ UNCHANGED <<geom, hgeom, data, input, tamper, unpacked, nvars>>

\* HilbertGeometry::encode_bincode
EncodeBincode ==
    /\ pc = "hilbert"
    /\ data' = encode_bincode(hgeom)
    /\ pc' = "bytes"
    /\ UNCHANGED <<geom, hgeom, input, tamper, unpacked, decoded, err, nvars>>

\* HilbertSerializer::encode: HilbertGeometry::from(geom), then encode_bincode
SerializerEncode ==
    /\ pc = "geometry"
    /\ LET hg == encode_geometry(geom)
       IN  IF hg.kind = "Unimplemented"
           THEN Stops("panic", "not implemented: Geometry type not supported")
                /\ UNCHANGED <<hgeom, data>>
           ELSE pc' = "bytes" /\ hgeom' = hg /\ data' = encode_bincode(hg)
                /\ UNCHANGED err
    /\ UNCHANGED <<geom, input, tamper, unpacked, decoded, nvars>>

\* HilbertGeometry::decode_bincode
DecodeBincode ==
    /\ pc = "bytes"
    /\ \E t \in TamperKinds : \E d \in Received(data, t) : \E allocOk \in BOOLEAN :
         LET r == decode_bincode(d, allocOk)
         IN  /\ input' = d
             /\ tamper' = t
             /\ IF r.st = "ok"
                THEN pc' = "unpacked" /\ unpacked' = r.val /\ UNCHANGED err
                ELSE pc' = (IF r.st = "err" THEN "error" ELSE r.st)
                     /\ err' = r.val /\ UNCHANGED unpacked
    /\ UNCHANGED <<geom, hgeom, data, decoded, nvars>>

\* HilbertSerializer::decode: decode_bincode(data)?, then hg.into()
SerializerDecode ==
    /\ pc = "bytes"
    /\ \E t \in TamperKinds : \E d \in Received(data, t) : \E allocOk \in BOOLEAN :
         LET r == decode_bincode(d, allocOk)
             g == decode_geometry(r.val)
         IN  /\ input' = d
             /\ tamper' = t
             /\ IF r.st # "ok"
                THEN pc' = (IF r.st = "err" THEN "error" ELSE r.st)
                     /\ err' = r.val /\ UNCHANGED <<unpacked, decoded>>
                ELSE IF g.kind = "UnwrapFailed"
                THEN Stops("panic", "called Result::unwrap() on an Err value")
                     /\ unpacked' = r.val /\ UNCHANGED decoded
                ELSE pc' = "decoded" /\ unpacked' = r.val /\ decoded' = g
                     /\ UNCHANGED err
    /\ UNCHANGED <<geom, hgeom, data, nvars>>

Next ==
    \/ EncodeGeometry
    \/ DecodeGeometry
    \/ EncodeBincode
    \/ SerializerEncode
    \/ DecodeBincode
    \/ SerializerDecode

Spec == Init /\ [][Next]_vars

\* The normaliser on its own.
InitNorm ==
    /\ GeomIdle
    /\ npc = "input"
    /\ lonlat \in LonInputs \X LatInputs
    /\ norm = NoPair /\ denorm = NoPair

Normalize ==
    /\ npc = "input"
    /\ norm' = normalize_lon_lat(lonlat[1], lonlat[2])
    /\ npc' = "normalized"
    /\ UNCHANGED <<lonlat, denorm, gvars>>

Denormalize ==
    /\ npc = "normalized"
    /\ denorm' = denormalize_lon_lat(norm[1], norm[2])
    /\ npc' = "denormalized"
    /\ UNCHANGED <<lonlat, norm, gvars>>

NextNorm == Normalize \/ Denormalize

SpecNorm == InitNorm /\ [][NextNorm]_vars

\* ------------------------------------------------------------------ claims
Range(f) == {f[i] : i \in DOMAIN f}

RingCoords(poly) ==
    Range(poly.exterior) \union UNION {Range(poly.interiors[i]) : i \in DOMAIN poly.interiors}

\* The coordinates of a supported Geometry.
CoordsOf(g) ==
    CASE g.kind = "Point" -> {g.val}
      [] g.kind \in {"LineString", "MultiPoint"} -> Range(g.val)
      [] g.kind = "Polygon" -> RingCoords(g.val)
      [] g.kind = "MultiLineString" -> UNION {Range(g.val[i]) : i \in DOMAIN g.val}
      [] g.kind = "MultiPolygon" -> UNION {RingCoords(g.val[i]) : i \in DOMAIN g.val}

\* Every coordinate of g comes back from decode_coord after encode_coord.
RoundTrips(g) == \A c \in CoordsOf(g) : decode_coord(encode_coord(c)) = c

\* geom went through encode_geometry and decode_geometry, and not through bytes.
DirectRoundTrip == pc = "decoded" /\ geom.kind \in SupportedKinds /\ data = <<>>

UnsupportedEnded == geom.kind \in UnsupportedKinds /\ pc # "geometry"

\* C3 as stated: for an unsupported kind the encoders return an
\* UnsupportedGeometryKind error value, and produce no HilbertGeometry and no
\* bytes.
C3_UnsupportedIsError ==
    UnsupportedEnded =>
        pc = "error" /\ err = "UnsupportedGeometryKind" /\ hgeom = NoGeom /\ data = <<>>

\* C3 as amended: for an unsupported kind the encoders panic (unimplemented!)
\* and return nothing: no error value, no HilbertGeometry, no bytes.
C3_UnsupportedPanics ==
    UnsupportedEnded =>
        /\ pc = "panic"
        /\ err = "not implemented: Geometry type not supported"
        /\ hgeom = NoGeom
        /\ data = <<>>

C3_Witness == geom.kind = "GeometryCollection" /\ pc = "panic"

\* C4 as stated: decode returns a DecodeError for every truncated byte sequence,
\* every leading discriminator that is no variant, and every declared length
\* the remaining bytes cannot supply.
C4_DamagedIsError ==
    tamper \in {"truncated", "discriminator", "length"} => pc = "error"

PointsMirror(pts, hps) ==
    /\ Len(hps) = Len(pts)
    /\ \A i \in 1..Len(pts) : hps[i] = encode_coord(pts[i])

RingsMirror(poly, rings) ==
    /\ Len(rings) = Len(poly.interiors) + 1
    /\ PointsMirror(poly.exterior, rings[1])
    /\ \A i \in 1..Len(poly.interiors) : PointsMirror(poly.interiors[i], rings[i + 1])

Mirrors(g, h) ==
    /\ h.kind = g.kind
    /\ CASE g.kind = "Point" -> h.val = encode_coord(g.val)
         [] g.kind \in {"LineString", "MultiPoint"} -> PointsMirror(g.val, h.val)
         [] g.kind = "Polygon" -> RingsMirror(g.val, h.val)
         [] g.kind = "MultiLineString" ->
               /\ Len(h.val) = Len(g.val)
               /\ \A i \in 1..Len(g.val) : PointsMirror(g.val[i], h.val[i])
         [] g.kind = "MultiPolygon" ->
               /\ Len(h.val) = Len(g.val)
               /\ \A i \in 1..Len(g.val) : RingsMirror(g.val[i], h.val[i])

\* C5: encode_geometry maps encode_coord over the input element by element:
\* same lengths, same order, nothing dropped, and a Polygon with n interior
\* rings becomes n + 1 rings, the exterior first, the interiors in order.
C5_EncodeMirrors ==
    (geom.kind \in SupportedKinds /\ pc # "geometry") => Mirrors(geom, hgeom)

\* A polygon with two different interior rings, encoded.
C5_Witness ==
    /\ pc = "hilbert"
    /\ geom.kind = "Polygon"
    /\ Len(geom.val.interiors) = 2
    /\ geom.val.interiors[1] # geom.val.interiors[2]
    /\ Len(hgeom.val) = 3
    /\ hgeom.val[2] # hgeom.val[3]

\* The HilbertGeometry decode_geometry was called on.
Decoded == IF unpacked.kind # "None" THEN unpacked ELSE hgeom

PlainPoints(ring) == [i \in 1..Len(ring) |-> decode_coord(ring[i])]

ClosedPoints(ring) ==
    LET p == PlainPoints(ring)
    IN  IF Len(p) > 0 /\ p[1] # p[Len(p)] THEN p \o <<p[1]>> ELSE p

\* poly is the decoding of rings, each ring decoded by Points.
PolygonOf(rings, poly, Points(_)) ==
    IF Len(rings) = 0
    THEN poly.exterior = <<>> /\ poly.interiors = <<>>
    ELSE /\ poly.exterior = Points(rings[1])
         /\ Len(poly.interiors) = Len(rings) - 1
         /\ \A i \in 1..(Len(rings) - 1) : poly.interiors[i] = Points(rings[i + 1])

DecodedPolygons(Points(_)) ==
    /\ (pc = "decoded" /\ Decoded.kind = "Polygon") =>
           decoded.kind = "Polygon" /\ PolygonOf(Decoded.val, decoded.val, Points)
    /\ (pc = "decoded" /\ Decoded.kind = "MultiPolygon") =>
           /\ decoded.kind = "MultiPolygon"
           /\ Len(decoded.val) = Len(Decoded.val)
           /\ \A i \in 1..Len(Decoded.val) :
                  PolygonOf(Decoded.val[i], decoded.val[i], Points)

\* C6 as stated: a Polygon of no rings decodes to an empty exterior and no
\* interiors; otherwise ring 1 is the exterior, the others the interiors in
\* order, each ring's vertices decode_coord of its scalars in order; the same
\* for every member of a MultiPolygon.
C6_RingsDecodedAsGiven == DecodedPolygons(PlainPoints)

\* C6 as amended: the same, except that a ring whose first and last decoded
\* vertex differ ends with one more vertex, a copy of the first.
C6_RingsDecodedClosed == DecodedPolygons(ClosedPoints)

\* A hand-built polygon with an open exterior of two scalars, decoded to three
\* vertices.
C6_Witness ==
    /\ pc = "decoded"
    /\ Decoded.kind = "Polygon"
    /\ Len(Decoded.val) = 2
    /\ Len(Decoded.val[1]) = 2
    /\ Len(decoded.val.exterior) = 3
    /\ Len(decoded.val.interiors) = 1

\* lo <= v <= hi
RWithin(v, lo, hi) == RLeq(R(lo), v) /\ RLeq(v, R(hi))

\* lo <= v < hi
RBelow(v, lo, hi) == RLeq(R(lo), v) /\ ~RLeq(R(hi), v)

Inverted == REq(denorm[1], lonlat[1]) /\ REq(denorm[2], lonlat[2])

C8_NormalizedInUnitRange ==
    npc # "input" => RWithin(norm[1], 0, 1) /\ RWithin(norm[2], 0, 1)

\* C9 as stated: decode_geometry and HilbertSerializer::decode never panic or
\* abort: a decode ends with a geometry or with a DecodeError.
C9_DecodeNeverAborts ==
    pc \in {"panic", "abort"} => (tamper = "none" /\ geom.kind \in UnsupportedKinds)

\* The part of C9 about the downcasts: no member of a decoded MultiLineString
\* or MultiPolygon fails its try_into.
DowncastsSucceed == err # "called Result::unwrap() on an Err value"

\* C10: bytes after a valid encoding are ignored: decoding it with any tail
\* succeeds and yields the value that decoding it alone yields.
C10_TrailingBytesIgnored ==
    tamper = "trailing" =>
        LET alone == decode_bincode(data, TRUE)
        IN  /\ pc \in {"unpacked", "decoded"}
            /\ alone.st = "ok"
            /\ unpacked = alone.val

\* A MultiPolygon decoded from its encoding followed by two bytes.
C10_Witness ==
    /\ tamper = "trailing"
    /\ pc = "unpacked"
    /\ Len(input) = Len(data) + 2
    /\ unpacked.kind = "MultiPolygon"
    /\ Len(unpacked.val) = 1
====
